---- MODULE Spec2Model ----
(***************************************************************************)
(* Todo application back ends: the account security state machine          *)
(* (face-4 app/api/v1/auth.py), the task store (face-2 app/api/v1/tasks.py)*)
(* and the conversation history service (face-4 app/services/              *)
(* conversation.py), modelled over an abstract relational store.           *)
(*                                                                         *)
(* Time is counted in minutes.  A handler runs at one instant: every       *)
(* datetime.utcnow() it calls reads the same value of the clock `now`.     *)
(* Random identifiers (uuid4, secrets.token_urlsafe) are modelled as the   *)
(* next unused index of their table.                                       *)
(***************************************************************************)
EXTENDS Integers, Sequences, FiniteSets, TLC

\* ------------------------------------------------------------------ bounds
\* the clock is sampled at the slots 0..MaxSlots of the first day and at
\* slot 1 of each of the MaxDays following days
MaxSlots == 2
MaxDays == 1
\* rows of the verification_tokens table, when verify-email is explored
MaxTokens == 2
\* rows of the verification_tokens table, when the resend rate limit is explored
MaxIssued == 4

\* task ids issued
MaxTasks == 2
\* message ids issued by chat turns
MaxChatMessages == 4
\* conversation ids issued by chat turns
MaxConversations == 2
\* max_tasks of the console app's TodoList
MaxTodoTasks == 2
\* message ids issued
MaxMessages == 3

\* --------------------------------------------------------------- constants
\* Python None in a nullable integer / timestamp column
NULL == -1
\* Python None in a nullable string column
NONE == "None"
SlotMinutes == 30
DayMinutes == 1440
HourMinutes == 60
VERIFICATION_TOKEN_EXPIRATION_HOURS == 24
TokenExpirationMinutes == VERIFICATION_TOKEN_EXPIRATION_HOURS * HourMinutes
LockMinutes == 15
AccessTokenMinutes == 15
ExpiresInSeconds == 900
ResendLimit == 3

VARIABLES
    now,            \* datetime.utcnow(), minutes
    users,          \* table users: sequence of rows, id = index
    tokens,         \* table verification_tokens: sequence of rows, token = index
    auth_events,    \* table auth_events: the set of distinct rows written
    wrong_streak,   \* observer: per user, consecutive logins with a non-matching password (capped)
    tasks,          \* table tasks: the set of rows
    task_seq,       \* number of task ids issued so far
    conversations,  \* table conversation: the set of rows
    conv_seq,       \* number of conversation ids issued so far
    messages,       \* table message: the rows in insertion order
    msg_seq,        \* number of message ids issued so far
    mcp_tasks,      \* table task of the chatbot back end: the set of rows
    mcp_task_seq,   \* number of ids issued in the table task of the chatbot back end
    api_key,        \* whether the environment holds an OPENAI_API_KEY
    agent_instance, \* _agent_instance: the lazily built TodoAgent, by its client
    inflight,       \* per server process: the request it is handling and its locals
    todo_tasks,     \* console app: TodoList._tasks, in insertion order
    todo_next_id,   \* console app: TodoList._next_id
    resp            \* the last request and the response it got

authVars == <<users, tokens, auth_events, wrong_streak>>
taskVars == <<tasks, task_seq>>
chatVars == <<conversations, conv_seq, messages, msg_seq>>
agentVars == <<mcp_tasks, mcp_task_seq, api_key, agent_instance>>
raceVars == <<inflight>>
cliVars == <<todo_tasks, todo_next_id>>
vars == <<now, authVars, taskVars, chatVars, agentVars, raceVars, cliVars, resp>>

\* the instants at which the clock is sampled
Instants ==
    { s * SlotMinutes : s \in 0..MaxSlots } \cup
    { d * DayMinutes + SlotMinutes : d \in 1..MaxDays }

Min(a, b) == IF a < b THEN a ELSE b

\* ------------------------------------------------------------ core/security
hash_password(password) == <<"bcrypt", password>>

verify_password(plain_password, hashed_password) ==
    hashed_password = hash_password(plain_password)

create_access_token(sub, expires_delta) == [sub |-> sub, exp |-> now + expires_delta]

\* ------------------------------------------------------------------ tables
User(email, password_hash, is_verified, failed, locked_until) ==
    [ email |-> email, password_hash |-> password_hash,
      is_verified |-> is_verified, is_active |-> TRUE,
      failed_login_attempts |-> failed, locked_until |-> locked_until,
      created_at |-> now, updated_at |-> now, last_login_at |-> NULL ]

\* a token row that is born verified
VerificationTokenVerified(user_id, expires_at) ==
    [ user_id |-> user_id, expires_at |-> expires_at,
      verified_at |-> now, created_at |-> now ]

VerificationToken(user_id, expires_at) ==
    [ user_id |-> user_id, expires_at |-> expires_at,
      verified_at |-> NULL, created_at |-> now ]

AuthEvent(user_id, event_type, success, failure_reason) ==
    [ user_id |-> user_id, event_type |-> event_type,
      success |-> success, failure_reason |-> failure_reason ]

\* a lookup that finds no user
UserByEmailNotFound(email) == NULL

\* select(User).where(User.email == email).first(); email is unique
UserByEmail(email) ==
    IF \E u \in DOMAIN users : users[u].email = email
    THEN CHOOSE u \in DOMAIN users : users[u].email = email
    ELSE NULL

\* ------------------------------------------------------------------ inputs
SeedPassword == "TestPass123!"
WrongPassword == "WrongPass123!"
Passwords == {SeedPassword, WrongPassword}
SeedEmails == {"test@example.com", "unverified@example.com", "locked@example.com"}
LoginEmails == SeedEmails \cup {"nobody@example.com"}

\* ------------------------------------------------------------------ seed.py
\* the database after seed_test_users() has run at minute 0
SeedUsers ==
    << User("test@example.com", hash_password(SeedPassword), TRUE, 0, NULL),
       User("unverified@example.com", hash_password(SeedPassword), FALSE, 0, NULL),
       User("locked@example.com", hash_password(SeedPassword), TRUE, 5, now + LockMinutes) >>

SeedTokens == << VerificationToken(2, now + TokenExpirationMinutes) >>

InitSeeded ==
    /\ now = 0
    /\ users = SeedUsers
    /\ tokens = SeedTokens
    /\ auth_events = {}
    /\ wrong_streak = [u \in DOMAIN SeedUsers |-> 0]
    /\ tasks = {}
    /\ task_seq = 0
    /\ conversations = {}
    /\ conv_seq = 0
    /\ messages = << >>
    /\ msg_seq = 0
    /\ mcp_tasks = {}
    /\ mcp_task_seq = 0
    /\ api_key = FALSE
    /\ agent_instance = NONE
    /\ inflight = << >>
    /\ todo_tasks = << >>
    /\ todo_next_id = 1
    /\ resp = [op |-> "none"]

\* ------------------------------------------------------------------- clock
Tick ==
    /\ \E t \in Instants : t > now /\ now' = t
    /\ resp' = [op |-> "tick"]
    /\ UNCHANGED <<authVars, taskVars, chatVars, agentVars, raceVars, cliVars>>

\* the step leaves the clock at or before the instant horizon
ClockWithin(horizon) == now' <= horizon

\* ------------------------------------------------------------ POST /login
\* the observer: a login of an existing account with a non-matching password
\* extends the streak, any other login of that account ends it
StreakAfter(user, password) ==
    IF verify_password(password, users[user].password_hash)
    THEN 0
    ELSE Min(wrong_streak[user] + 1, 5)

\* LoginOk without the reset of the lockout fields
LoginOkKeepsLock(user) ==
    [ users EXCEPT ![user] =
        [ @ EXCEPT !.last_login_at = now,
                   !.updated_at = now ] ]

LoginOk(user) ==
    [ users EXCEPT ![user] =
        [ @ EXCEPT !.failed_login_attempts = 0,
                   !.locked_until = NULL,
                   !.last_login_at = now,
                   !.updated_at = now ] ]

Login(email, password) ==
    /\ UNCHANGED <<taskVars, chatVars, agentVars, raceVars, cliVars>>
    /\ LET user == UserByEmail(email) IN
       IF user = NULL
       THEN /\ resp' = [ op |-> "login", email |-> email, password |-> password,
                         status |-> 401, detail |-> "User not found in database" ]
            /\ UNCHANGED <<now, authVars>>
       ELSE \* "DEVELOPMENT MODE: Skipping password check"; the statements after
            \* the return at line 320 are never executed
            /\ users' = LoginOk(user)
            /\ auth_events' = auth_events \cup {AuthEvent(user, "login", TRUE, NONE)}
            /\ wrong_streak' = [wrong_streak EXCEPT ![user] = StreakAfter(user, password)]
            /\ resp' = [ op |-> "login", email |-> email, password |-> password,
                         status |-> 200,
                         access_token |-> create_access_token(user, AccessTokenMinutes),
                         token_type |-> "bearer",
                         expires_in |-> ExpiresInSeconds,
                         user |-> [id |-> user, email |-> users[user].email] ]
            /\ UNCHANGED <<now, tokens>>

NextLogin ==
    \/ \E email \in LoginEmails, password \in Passwords : Login(email, password)
    \/ Tick

SpecLogin == InitSeeded /\ [][NextLogin]_vars

\* an empty database
InitEmpty ==
    /\ now = 0
    /\ users = << >>
    /\ tokens = << >>
    /\ auth_events = {}
    /\ wrong_streak = << >>
    /\ tasks = {}
    /\ task_seq = 0
    /\ conversations = {}
    /\ conv_seq = 0
    /\ messages = << >>
    /\ msg_seq = 0
    /\ mcp_tasks = {}
    /\ mcp_task_seq = 0
    /\ api_key = FALSE
    /\ agent_instance = NONE
    /\ inflight = << >>
    /\ todo_tasks = << >>
    /\ todo_next_id = 1
    /\ resp = [op |-> "none"]

RegisterEmails == {"a@example.com", "b@example.com"}
ResendEmails == RegisterEmails \cup {"nobody@example.com"}

\* --------------------------------------------------------- POST /register
\* sent: whether the SMTP transport delivered the mail; send_verification_email
\* catches every exception of the transport and raises nothing
Register(email, password, sent) ==
    /\ UNCHANGED <<taskVars, chatVars, agentVars, raceVars, cliVars>>
    /\ LET existing_user == UserByEmail(email)
           user == Len(users) + 1
       IN
       IF existing_user # NULL
       THEN /\ auth_events' = auth_events \cup
                   {AuthEvent(NULL, "registration", FALSE, "Email already registered")}
            /\ resp' = [ op |-> "register", email |-> email, status |-> 400,
                         detail |-> "Email address is already registered" ]
            /\ UNCHANGED <<now, users, tokens, wrong_streak>>
       ELSE /\ users' = Append(users, User(email, hash_password(password), FALSE, 0, NULL))
            /\ tokens' = Append(tokens, VerificationToken(user, now + TokenExpirationMinutes))
            /\ auth_events' = auth_events \cup {AuthEvent(user, "registration", TRUE, NONE)}
            /\ wrong_streak' = Append(wrong_streak, 0)
            /\ resp' = [ op |-> "register", email |-> email, status |-> 201,
                         message |-> "Registration successful. Please check your email to verify your account.",
                         user_id |-> user, email_sent |-> sent ]
            /\ UNCHANGED now

\* ------------------------------------------------------ GET /verify-email
\* the checks of verify_email, in the order of the code
TokenUnknown(token) == token \notin DOMAIN tokens
\* TokenUsed with the check of verified_at left out
TokenUsedNever(token) == FALSE

TokenUsed(token) == tokens[token].verified_at # NULL
\* TokenExpired with the expiry check left out
TokenNeverExpires(token) == FALSE

TokenExpired(token) == tokens[token].expires_at < now

\* VerifyRejection without the already-used check
VerifyRejectionReusable(token) ==
    IF TokenUnknown(token) THEN "Invalid verification token"
    ELSE IF TokenExpired(token) THEN "Verification token has expired. Please request a new one."
    ELSE NONE

VerifyRejection(token) ==
    IF TokenUnknown(token) THEN "Invalid verification token"
    ELSE IF TokenUsed(token) THEN "Verification token has already been used"
    ELSE IF TokenExpired(token) THEN "Verification token has expired. Please request a new one."
    ELSE NONE

VerifyEmail(token) ==
    /\ UNCHANGED <<taskVars, chatVars, agentVars, raceVars, cliVars>>
    /\ IF VerifyRejection(token) # NONE
       THEN /\ resp' = [ op |-> "verify_email", token |-> token, status |-> 400,
                         detail |-> VerifyRejection(token) ]
            /\ UNCHANGED <<now, authVars>>
       ELSE LET user == tokens[token].user_id IN
            IF user \notin DOMAIN users
            THEN /\ resp' = [ op |-> "verify_email", token |-> token, status |-> 404,
                              detail |-> "User not found" ]
                 /\ UNCHANGED <<now, authVars>>
            ELSE /\ users' = [users EXCEPT ![user] =
                                 [@ EXCEPT !.is_verified = TRUE, !.updated_at = now]]
                 /\ tokens' = [tokens EXCEPT ![token] = [@ EXCEPT !.verified_at = now]]
                 /\ auth_events' = auth_events \cup
                        {AuthEvent(user, "email_verification", TRUE, NONE)}
                 /\ resp' = [ op |-> "verify_email", token |-> token, status |-> 200,
                              message |-> "Email verified successfully. You can now login.",
                              user_id |-> user ]
                 /\ UNCHANGED <<now, wrong_streak>>

\* ----------------------------------------------- POST /resend-verification
\* the tokens of the user created after one_hour_ago
RecentTokens(user) ==
    { t \in DOMAIN tokens :
        tokens[t].user_id = user /\ tokens[t].created_at > now - HourMinutes }

\* RateLimited with the comparison off by one
RateLimitedAboveLimit(user) == Cardinality(RecentTokens(user)) > ResendLimit

RateLimited(user) == Cardinality(RecentTokens(user)) >= ResendLimit

ResendVerification(email, sent) ==
    /\ UNCHANGED <<taskVars, chatVars, agentVars, raceVars, cliVars>>
    /\ LET user == UserByEmail(email) IN
       IF user = NULL
       THEN /\ resp' = [ op |-> "resend_verification", email |-> email, status |-> 200,
                         message |-> "If the email exists and is not verified, a new verification email has been sent." ]
            /\ UNCHANGED <<now, authVars>>
       ELSE IF users[user].is_verified
       THEN /\ resp' = [ op |-> "resend_verification", email |-> email, status |-> 400,
                         detail |-> "Email is already verified" ]
            /\ UNCHANGED <<now, authVars>>
       ELSE IF RateLimited(user)
       THEN /\ resp' = [ op |-> "resend_verification", email |-> email, status |-> 429,
                         detail |-> "Too many verification emails requested. Please try again later." ]
            /\ UNCHANGED <<now, authVars>>
       ELSE /\ tokens' = Append(tokens, VerificationToken(user, now + TokenExpirationMinutes))
            /\ resp' = [ op |-> "resend_verification", email |-> email, status |-> 200,
                         message |-> "A new verification email has been sent. Please check your inbox.",
                         email_sent |-> sent ]
            /\ UNCHANGED <<now, users, auth_events, wrong_streak>>

\* the step leaves at most cap rows in verification_tokens
TokensWithin(cap) == Len(tokens') <= cap

NextVerify ==
    \/ \E email \in RegisterEmails, sent \in BOOLEAN :
          Register(email, SeedPassword, sent) /\ TokensWithin(MaxTokens)
    \/ \E token \in 1..(Len(tokens) + 1) : VerifyEmail(token)
    \/ \E email \in RegisterEmails, sent \in BOOLEAN :
          ResendVerification(email, sent) /\ TokensWithin(MaxTokens)
    \/ Tick /\ ClockWithin(DayMinutes + SlotMinutes)

SpecVerify == InitEmpty /\ [][NextVerify]_vars

NextResend ==
    \/ \E email \in RegisterEmails, sent \in BOOLEAN :
          Register(email, SeedPassword, sent) /\ TokensWithin(MaxIssued)
    \/ \E email \in ResendEmails, sent \in BOOLEAN :
          ResendVerification(email, sent) /\ TokensWithin(MaxIssued)
    \/ Tick

SpecResend == InitEmpty /\ [][NextResend]_vars

\* ====================================================== task store (face-2)
\* the authenticated callers (get_current_user: the sub of the bearer token)
Owners == {1, 2}
Titles == {"Original Title"}
TaskUpdates ==
    { [title |-> "Updated Title"],
      [status |-> "completed"],
      [status |-> "pending"],
      [status |-> "archived"] }

Task(id, user_id, title, description, due_date) ==
    [ id |-> id, user_id |-> user_id, title |-> title,
      description |-> description, status |-> "pending", due_date |-> due_date,
      created_at |-> now, updated_at |-> now ]

\* the orders in which ORDER BY key DESC may return the rows of S:
\* rows with equal keys come in any order
NewestFirst(S) ==
    { s \in [1..Cardinality(S) -> S] :
        /\ \A i, j \in 1..Cardinality(S) : i # j => s[i] # s[j]
        /\ \A i, j \in 1..Cardinality(S) : i < j => s[i].created_at >= s[j].created_at }

\* select(Task).where(Task.id == task_id) without the ownership predicate
TaskOfAnyOwner(task_id, owner) ==
    { t \in tasks : t.id = task_id }

\* select(Task).where(Task.id == task_id, Task.user_id == current_user_id)
OwnedTask(task_id, owner) ==
    { t \in tasks : t.id = task_id /\ t.user_id = owner }

\* TaskUpdate with every status accepted
TaskUpdateAnyStatus(task_data) == TRUE

\* TaskUpdate: status is Optional[str]; a string must match
\* ^(pending|completed)$ and null is accepted
TaskUpdateValid(task_data) ==
    "status" \in DOMAIN task_data => task_data.status \in {"pending", "completed", NONE}

\* Task.title and Task.status are columns declared str: NOT NULL
NotNullViolated(update_data) ==
    \E f \in {"title", "status"} \cap DOMAIN update_data : update_data[f] = NONE

\* an update that resets the status it was not given to its default
ApplyUpdateReplacing(task, update_data) ==
    [ f \in DOMAIN task |->
        IF f \in DOMAIN update_data THEN update_data[f]
        ELSE IF f = "updated_at" THEN now
        ELSE IF f = "status" THEN "pending"
        ELSE task[f] ]

\* for field, value in update_data.items(): setattr(task, field, value)
ApplyUpdate(task, update_data) ==
    [ f \in DOMAIN task |->
        IF f \in DOMAIN update_data THEN update_data[f]
        ELSE IF f = "updated_at" THEN now
        ELSE task[f] ]

CreateTask(owner, title, description, due_date) ==
    LET task == Task(task_seq + 1, owner, title, description, due_date) IN
    /\ tasks' = tasks \cup {task}
    /\ task_seq' = task_seq + 1
    /\ resp' = [ op |-> "create_task", caller |-> owner, status |-> 201, body |-> task ]
    /\ UNCHANGED <<now, authVars, chatVars, agentVars, raceVars, cliVars>>

ListTasks(owner) ==
    /\ \E rows \in NewestFirst({ t \in tasks : t.user_id = owner }) :
          resp' = [ op |-> "list_tasks", caller |-> owner, status |-> 200, body |-> rows ]
    /\ UNCHANGED <<now, authVars, taskVars, chatVars, agentVars, raceVars, cliVars>>

TaskNotFound(op, owner, task_id) ==
    [ op |-> op, caller |-> owner, task_id |-> task_id,
      status |-> 404, detail |-> "Task not found" ]

GetTask(owner, task_id) ==
    /\ IF OwnedTask(task_id, owner) = {}
       THEN resp' = TaskNotFound("get_task", owner, task_id)
       ELSE \E task \in OwnedTask(task_id, owner) :
              resp' = [ op |-> "get_task", caller |-> owner, task_id |-> task_id,
                        status |-> 200, body |-> task ]
    /\ UNCHANGED <<now, authVars, taskVars, chatVars, agentVars, raceVars, cliVars>>

UpdateTask(owner, task_id, task_data) ==
    /\ IF ~TaskUpdateValid(task_data)
       THEN /\ resp' = [ op |-> "update_task", caller |-> owner, task_id |-> task_id,
                         data |-> task_data, status |-> 422,
                         detail |-> "String should match pattern" ]
            /\ UNCHANGED taskVars
       ELSE IF OwnedTask(task_id, owner) = {}
       THEN /\ resp' = TaskNotFound("update_task", owner, task_id) @@ [data |-> task_data]
            /\ UNCHANGED taskVars
       ELSE IF NotNullViolated(task_data)
       THEN /\ resp' = [ op |-> "update_task", caller |-> owner, task_id |-> task_id,
                         data |-> task_data, status |-> 500,
                         detail |-> "Internal Server Error" ]
            /\ UNCHANGED taskVars
       ELSE \E task \in OwnedTask(task_id, owner) :
              LET updated == ApplyUpdate(task, task_data) IN
              /\ tasks' = (tasks \ {task}) \cup {updated}
              /\ resp' = [ op |-> "update_task", caller |-> owner, task_id |-> task_id,
                           data |-> task_data, status |-> 200, body |-> updated ]
              /\ UNCHANGED task_seq
    /\ UNCHANGED <<now, authVars, chatVars, agentVars, raceVars, cliVars>>

\* the table when the delete is not carried out
WithTaskKept(task) == tasks

\* session.delete(task); session.commit()
WithoutTask(task) == tasks \ {task}

DeleteTask(owner, task_id) ==
    /\ IF OwnedTask(task_id, owner) = {}
       THEN /\ resp' = TaskNotFound("delete_task", owner, task_id)
            /\ UNCHANGED taskVars
       ELSE \E task \in OwnedTask(task_id, owner) :
              /\ tasks' = WithoutTask(task)
              /\ resp' = [ op |-> "delete_task", caller |-> owner, task_id |-> task_id,
                           status |-> 204 ]
              /\ UNCHANGED task_seq
    /\ UNCHANGED <<now, authVars, chatVars, agentVars, raceVars, cliVars>>

\* the step leaves at most cap task ids issued
TasksWithin(cap) == task_seq' <= cap

NextTasks ==
    \/ \E owner \in Owners, title \in Titles :
          CreateTask(owner, title, NONE, NULL) /\ TasksWithin(MaxTasks)
    \/ \E owner \in Owners : ListTasks(owner)
    \/ \E owner \in Owners, task_id \in 1..(MaxTasks + 1) : GetTask(owner, task_id)
    \/ \E owner \in Owners, task_id \in 1..(MaxTasks + 1), task_data \in TaskUpdates :
          UpdateTask(owner, task_id, task_data)
    \/ \E owner \in Owners, task_id \in 1..(MaxTasks + 1) : DeleteTask(owner, task_id)

SpecTasks == InitEmpty /\ [][NextTasks]_vars

\* the bodies of PATCH /tasks/{task_id}: fields given alone and together,
\* a status outside the pattern, and a null status
PatchBodies ==
    { [title |-> "Updated"],
      [status |-> "completed"],
      [title |-> "Updated", status |-> "pending"],
      [status |-> "invalid_status"],
      [status |-> NONE] }

\* as many tasks as there are callers
PatchTasksCap == Cardinality(Owners)

NextPatch ==
    \/ \E owner \in Owners :
          CreateTask(owner, "Original", "Original Description", NULL)
             /\ TasksWithin(PatchTasksCap)
    \/ \E owner \in Owners, task_id \in 1..(task_seq + 1), task_data \in PatchBodies :
          UpdateTask(owner, task_id, task_data)
    \/ Tick /\ ClockWithin(SlotMinutes)

SpecPatch == InitEmpty /\ [][NextPatch]_vars

\* ============================================ conversation service (face-4)
ChatUsers == {"alice", "bob"}
MessageRole == {"user", "assistant"}
DefaultHistoryLimit == 50

Conversation(id, user_id) ==
    [ id |-> id, user_id |-> user_id, created_at |-> now, updated_at |-> now ]

Message(id, conversation_id, user_id, role, content) ==
    [ id |-> id, conversation_id |-> conversation_id, user_id |-> user_id,
      role |-> role, content |-> content, created_at |-> now ]

CreateConversation(user_id) ==
    LET conversation == Conversation(conv_seq + 1, user_id) IN
    /\ conversations' = conversations \cup {conversation}
    /\ conv_seq' = conv_seq + 1
    /\ resp' = [ op |-> "create_conversation", user_id |-> user_id, body |-> conversation ]
    /\ UNCHANGED <<now, authVars, taskVars, agentVars, raceVars, cliVars, messages, msg_seq>>

\* session.get(Conversation, conversation_id), then updated_at = utcnow()
Touched(conversation_id) ==
    { IF c.id = conversation_id THEN [c EXCEPT !.updated_at = now] ELSE c :
        c \in conversations }

SaveMessage(conversation_id, user_id, role, content) ==
    LET message == Message(msg_seq + 1, conversation_id, user_id, role, content) IN
    /\ messages' = Append(messages, message)
    /\ msg_seq' = msg_seq + 1
    /\ conversations' = Touched(conversation_id)
    /\ resp' = [ op |-> "save_message", body |-> message ]
    /\ UNCHANGED <<now, authVars, taskVars, agentVars, raceVars, cliVars, conv_seq>>

\* the rows selected by the where clause of load_history
HistoryRows(conversation_id, user_id) ==
    { messages[i] : i \in { j \in DOMAIN messages :
        /\ messages[j].conversation_id = conversation_id
        /\ messages[j].user_id = user_id } }

\* .limit(limit)
Page(rows, limit) == SubSeq(rows, 1, Min(limit, Len(rows)))

\* list(reversed(messages))
Reversed(rows) == [ i \in 1..Len(rows) |-> rows[Len(rows) + 1 - i] ]

\* {"role": msg.role.value, "content": msg.content}
OpenAIFormat(rows) ==
    [ i \in 1..Len(rows) |-> [role |-> rows[i].role, content |-> rows[i].content] ]

\* History without the reversal of the newest-first page
HistoryNewestFirst(rows, limit) == OpenAIFormat(Page(rows, limit))

\* rows: the result of ORDER BY created_at DESC
History(rows, limit) == OpenAIFormat(Reversed(Page(rows, limit)))

LoadHistory(conversation_id, user_id, limit) ==
    /\ \E rows \in NewestFirst(HistoryRows(conversation_id, user_id)) :
          resp' = [ op |-> "load_history", conversation_id |-> conversation_id,
                    user_id |-> user_id, limit |-> limit,
                    body |-> History(rows, limit) ]
    /\ UNCHANGED <<now, authVars, taskVars, chatVars, agentVars, raceVars, cliVars>>

\* the step leaves at most cap message ids issued
MessagesWithin(cap) == msg_seq' <= cap

\* the database after create_conversation("alice") and
\* create_conversation("bob") at minute 0
InitConversations ==
    /\ now = 0
    /\ users = << >>
    /\ tokens = << >>
    /\ auth_events = {}
    /\ wrong_streak = << >>
    /\ tasks = {}
    /\ task_seq = 0
    /\ conversations = {Conversation(1, "alice"), Conversation(2, "bob")}
    /\ conv_seq = 2
    /\ messages = << >>
    /\ msg_seq = 0
    /\ mcp_tasks = {}
    /\ mcp_task_seq = 0
    /\ api_key = FALSE
    /\ agent_instance = NONE
    /\ inflight = << >>
    /\ todo_tasks = << >>
    /\ todo_next_id = 1
    /\ resp = [op |-> "none"]

\* the turns of a conversation alternate between the two roles
RoleOfTurn(n) == IF n % 2 = 1 THEN "user" ELSE "assistant"

\* the content of a saved message is its ordinal ("Message i" of the tests)
NextHistory ==
    \/ \E conversation_id \in 1..conv_seq, user_id \in ChatUsers :
          SaveMessage(conversation_id, user_id, RoleOfTurn(msg_seq + 1), msg_seq + 1)
             /\ MessagesWithin(MaxMessages)
    \/ \E conversation_id \in 1..conv_seq, user_id \in ChatUsers,
          limit \in (1..MaxMessages) \cup {DefaultHistoryLimit} :
          LoadHistory(conversation_id, user_id, limit)
    \/ Tick /\ ClockWithin(HourMinutes)

SpecHistory == InitConversations /\ [][NextHistory]_vars

\* ================================================== MCP tools (face-4)
\* a text is a sequence of words; " " stands for a run of white space
Task4(id, user_id, title, description) ==
    [ id |-> id, user_id |-> user_id, title |-> title, description |-> description,
      completed |-> FALSE, created_at |-> now, updated_at |-> now ]

\* the parameters of each tool function, and those without a default
ToolParameters ==
    [ add_task |-> {"user_id", "title", "description", "due_date"},
      list_tasks |-> {"user_id", "status"},
      complete_task |-> {"user_id", "task_id"},
      update_task |-> {"user_id", "task_id", "title", "description", "due_date"},
      delete_task |-> {"user_id", "task_id"} ]

ToolRequired ==
    [ add_task |-> {"user_id", "title"},
      list_tasks |-> {"user_id"},
      complete_task |-> {"user_id", "task_id"},
      update_task |-> {"user_id", "task_id"},
      delete_task |-> {"user_id", "task_id"} ]

ToolNames == DOMAIN ToolParameters

\* tool(**function_args) raises TypeError on a missing or an unexpected keyword
CallRaises(name, args) ==
    /\ name \in ToolNames
    /\ \/ ~(ToolRequired[name] \subseteq DOMAIN args)
       \/ ~(DOMAIN args \subseteq ToolParameters[name])

Arg(args, key) == IF key \in DOMAIN args THEN args[key] ELSE NONE

\* select(Task).where(Task.id == task_id, Task.user_id == user_id)
Task4Owned(store, task_id, user_id) ==
    { t \in store : t.id = task_id /\ t.user_id = user_id }

\* a tool outcome: the table afterwards, the ids issued, the rows the
\* query selected, and the dict the tool returns
ToolOutcome(store, seq, selected, result, error_message) ==
    [ store |-> store, seq |-> seq, selected |-> selected,
      result |-> result, error_message |-> error_message ]

ToolNotFound(store, seq) == ToolOutcome(store, seq, {}, "error", "Task not found")

add_task(store, seq, args) ==
    LET task == Task4(seq + 1, args.user_id, args.title, Arg(args, "description"))
    IN ToolOutcome(store \cup {task}, seq + 1, {}, "success", NONE)

list_tasks(store, seq, args) ==
    LET status == Arg(args, "status")
        rows == { t \in store :
                    /\ t.user_id = args.user_id
                    /\ status = "pending" => ~t.completed
                    /\ status = "completed" => t.completed }
    IN ToolOutcome(store, seq, rows, "success", NONE)

complete_task(store, seq, args) ==
    LET found == Task4Owned(store, args.task_id, args.user_id) IN
    IF found = {} THEN ToolNotFound(store, seq)
    ELSE LET task == CHOOSE t \in found : TRUE IN
         IF task.completed
         THEN ToolOutcome(store, seq, found, "success", NONE)
         ELSE ToolOutcome((store \ found) \cup
                             {[task EXCEPT !.completed = TRUE, !.updated_at = now]},
                          seq, found, "success", NONE)

update_task(store, seq, args) ==
    LET found == Task4Owned(store, args.task_id, args.user_id) IN
    IF found = {} THEN ToolNotFound(store, seq)
    ELSE LET task == CHOOSE t \in found : TRUE
             title == IF Arg(args, "title") # NONE THEN args.title ELSE task.title
             description == IF Arg(args, "description") # NONE
                            THEN args.description ELSE task.description
             updated == [task EXCEPT !.title = title, !.description = description]
         IN ToolOutcome((store \ found) \cup
                           {IF updated = task THEN task
                            ELSE [updated EXCEPT !.updated_at = now]},
                        seq, found, "success", NONE)

delete_task(store, seq, args) ==
    LET found == Task4Owned(store, args.task_id, args.user_id) IN
    IF found = {} THEN ToolNotFound(store, seq)
    ELSE ToolOutcome(store \ found, seq, found, "success", NONE)

\* ================================================= TodoAgent (face-4)
UnavailableReply == <<"Sorry, the AI chatbot is currently unavailable.">>
ErrorReply == <<"I encountered an error. Please try again.">>
DefaultReply == <<"I'm here to help with your tasks!">>

\* the if / elif chain of process_message
Dispatch(name, store, seq, args) ==
    CASE name = "add_task" -> add_task(store, seq, args)
      [] name = "list_tasks" -> list_tasks(store, seq, args)
      [] name = "complete_task" -> complete_task(store, seq, args)
      [] name = "update_task" -> update_task(store, seq, args)
      [] name = "delete_task" -> delete_task(store, seq, args)
      [] OTHER -> ToolOutcome(store, seq, {}, "error", "Unknown function")

\* an arguments text that is not JSON; json.loads raises on it
NotJson == [json_error |-> TRUE]

JsonLoadsRaises(arguments) == "json_error" \in DOMAIN arguments

\* the caller is filled in only where the model supplied no user_id
InjectTrusting(args, user_id) ==
    IF "user_id" \in DOMAIN args THEN args ELSE args @@ [user_id |-> user_id]

\* function_args["user_id"] = user_id
Inject(args, user_id) ==
    [ k \in DOMAIN args \cup {"user_id"} |-> IF k = "user_id" THEN user_id ELSE args[k] ]

\* {k: v for k, v in function_args.items() if k != "user_id"}
Parameters(args) == [ k \in DOMAIN args \ {"user_id"} |-> args[k] ]

\* the state of the for loop over assistant_message.tool_calls
LoopState(store, seq, results, executed, raised) ==
    [ store |-> store, seq |-> seq, results |-> results,
      executed |-> executed, raised |-> raised ]

RECURSIVE ExecuteToolCalls(_, _, _, _)
ExecuteToolCalls(tool_calls, i, user_id, st) ==
    IF i > Len(tool_calls) \/ st.raised THEN st
    ELSE LET name == tool_calls[i].name
             function_args == Inject(tool_calls[i].arguments, user_id)
         IN
         IF JsonLoadsRaises(tool_calls[i].arguments) \/ CallRaises(name, function_args)
         THEN [st EXCEPT !.raised = TRUE]
         ELSE LET out == Dispatch(name, st.store, st.seq, function_args) IN
              ExecuteToolCalls(tool_calls, i + 1, user_id,
                 LoopState(out.store, out.seq,
                    Append(st.results,
                       [ tool |-> name, parameters |-> Parameters(function_args),
                         result |-> out.result, error_message |-> out.error_message ]),
                    Append(st.executed,
                       [ tool |-> name, user_id |-> function_args.user_id,
                         selected |-> out.selected ]),
                    FALSE))

\* the dict process_message returns, or, with raised, the exception that
\* leaves it; with the table afterwards and, as observer, the tool
\* operations that were executed
AgentResult(response, tool_calls, store, seq, executed, raised) ==
    [ response |-> response, tool_calls |-> tool_calls,
      store |-> store, seq |-> seq, executed |-> executed, raised |-> raised ]

\* a body of process_message whose exceptions leave the function
Reraised(store, seq, executed) ==
    AgentResult(ErrorReply, << >>, store, seq, executed, TRUE)

\* except Exception as e: return {"response": ..., "tool_calls": []}
Caught(store, seq, executed) ==
    AgentResult(ErrorReply, << >>, store, seq, executed, FALSE)

\* return {"response": response_text or "I'm here to help with your tasks!",
\*         "tool_calls": tool_calls_results}
Returned(content, tool_calls, store, seq, executed) ==
    AgentResult(IF content = NONE THEN DefaultReply ELSE content,
                tool_calls, store, seq, executed, FALSE)

\* completion: the first answer of the model, [raises, content, tool_calls];
\* final: its answer after the tool results, [raises, content].
\* content NONE stands for a null or empty content.
\* process_message without the check of self.client
ProcessMessageWithoutClientCheck(instance, user_id, completion, final) ==
    IF completion.raises
    THEN Caught(mcp_tasks, mcp_task_seq, << >>)
    ELSE IF completion.tool_calls = << >>
    THEN Returned(completion.content, << >>, mcp_tasks, mcp_task_seq, << >>)
    ELSE LET st == ExecuteToolCalls(completion.tool_calls, 1, user_id,
                      LoopState(mcp_tasks, mcp_task_seq, << >>, << >>, FALSE))
         IN IF st.raised \/ final.raises
            THEN Caught(st.store, st.seq, st.executed)
            ELSE Returned(final.content, st.results, st.store, st.seq, st.executed)

process_message(instance, user_id, completion, final) ==
    IF instance = "no_client"
    THEN AgentResult(UnavailableReply, << >>, mcp_tasks, mcp_task_seq, << >>, FALSE)
    ELSE IF completion.raises
    THEN Caught(mcp_tasks, mcp_task_seq, << >>)
    ELSE IF completion.tool_calls = << >>
    THEN Returned(completion.content, << >>, mcp_tasks, mcp_task_seq, << >>)
    ELSE LET st == ExecuteToolCalls(completion.tool_calls, 1, user_id,
                      LoopState(mcp_tasks, mcp_task_seq, << >>, << >>, FALSE))
         IN IF st.raised \/ final.raises
            THEN Caught(st.store, st.seq, st.executed)
            ELSE Returned(final.content, st.results, st.store, st.seq, st.executed)

\* TodoAgent.__init__ behind get_agent(): the instance is built once
get_agent == IF agent_instance # NONE THEN agent_instance
             ELSE IF api_key THEN "client" ELSE "no_client"

\* ================================================ POST /chat (face-4)
\* str.strip() on a text: leading and trailing white space removed
RECURSIVE strip(_)
strip(v) ==
    IF v = << >> THEN v
    ELSE IF Head(v) = " " THEN strip(Tail(v))
    ELSE IF v[Len(v)] = " " THEN strip(SubSeq(v, 1, Len(v) - 1))
    ELSE v

\* ChatRequest: min_length=1 and the validator message_not_empty
ChatRequestValid(message) == Len(message) >= 1 /\ strip(message) # << >>

\* the lookup by id alone
GetConversationOfAnyUser(conversation_id, user_id) ==
    { c \in conversations : c.id = conversation_id }

\* get_conversation(conversation_id, user_id, session)
get_conversation(conversation_id, user_id) ==
    { c \in conversations : c.id = conversation_id /\ c.user_id = user_id }

\* the two rows of a turn, in the order of their save_message calls
TurnMessages(conversation_id, user_id, message, response) ==
    << Message(msg_seq + 1, conversation_id, user_id, "user", message),
       Message(msg_seq + 2, conversation_id, user_id, "assistant", response) >>

\* a turn that also saves each tool result as a message
TurnMessagesWithTools(conversation_id, user_id, message, result) ==
    << Message(msg_seq + 1, conversation_id, user_id, "user", message) >> \o
    [ i \in 1..Len(result.tool_calls) |->
        Message(msg_seq + 1 + i, conversation_id, user_id, "assistant",
                <<result.tool_calls[i].tool>>) ] \o
    << Message(msg_seq + 2 + Len(result.tool_calls), conversation_id, user_id,
               "assistant", result.response) >>

\* the rows chat() saves for a turn
SavedMessages(conversation_id, user_id, message, result) ==
    TurnMessages(conversation_id, user_id, message, result.response)

\* raw: the message of the request body; conversation_id NULL: not given;
\* resp carries, as observers, what the model answered in the turn
Chat(user_id, raw, conversation_id, completion, final) ==
    /\ UNCHANGED <<now, authVars, taskVars, api_key, raceVars, cliVars>>
    /\ IF ~ChatRequestValid(raw)
       THEN /\ resp' = [ op |-> "chat", user_id |-> user_id, raw |-> raw,
                         conversation_id |-> conversation_id, status |-> 422 ]
            /\ UNCHANGED <<chatVars, mcp_tasks, mcp_task_seq, agent_instance>>
       ELSE IF conversation_id \notin {NULL, 0}
               /\ get_conversation(conversation_id, user_id) = {}
       THEN /\ resp' = [ op |-> "chat", user_id |-> user_id, raw |-> raw,
                         conversation_id |-> conversation_id, status |-> 404,
                         detail |-> "Conversation not found" ]
            /\ UNCHANGED <<chatVars, mcp_tasks, mcp_task_seq, agent_instance>>
       ELSE LET message == strip(raw)
                created == conversation_id \in {NULL, 0}
                id == IF created THEN conv_seq + 1 ELSE conversation_id
                agent == get_agent
                result == process_message(agent, user_id, completion, final)
                saved == SavedMessages(id, user_id, message, result)
            IN
            /\ conv_seq' = IF created THEN conv_seq + 1 ELSE conv_seq
            /\ conversations' =
                  IF created
                  THEN conversations \cup {Conversation(id, user_id)}
                  ELSE Touched(id)
            /\ agent_instance' = agent
            /\ mcp_tasks' = result.store
            /\ mcp_task_seq' = result.seq
            /\ IF result.raised
               THEN \* except Exception: the user message stays committed
                    /\ messages' = Append(messages,
                                      Message(msg_seq + 1, id, user_id, "user", message))
                    /\ msg_seq' = msg_seq + 1
                    /\ resp' = [ op |-> "chat", user_id |-> user_id, raw |-> raw,
                                 conversation_id |-> conversation_id, status |-> 500,
                                 agent |-> agent, calls |-> completion.tool_calls,
                                 raises |-> <<completion.raises, final.raises>> ]
               ELSE /\ messages' = messages \o saved
                    /\ msg_seq' = msg_seq + Len(saved)
                    /\ resp' = [ op |-> "chat", user_id |-> user_id, raw |-> raw,
                                 conversation_id |-> conversation_id, status |-> 200,
                                 message |-> message,
                                 agent |-> agent, calls |-> completion.tool_calls,
                                 raises |-> <<completion.raises, final.raises>>,
                                 body |-> [ conversation_id |-> id,
                                            response |-> result.response,
                                            tool_calls |-> result.tool_calls ],
                                 executed |-> result.executed ]

\* process_message as chat() calls it: get_agent(), then the turn
ProcessMessage(user_id, completion, final) ==
    LET agent == get_agent
        result == process_message(agent, user_id, completion, final)
    IN
    /\ agent_instance' = agent
    /\ mcp_tasks' = result.store
    /\ mcp_task_seq' = result.seq
    /\ resp' = [ op |-> "process_message", user_id |-> user_id, agent |-> agent,
                 calls |-> completion.tool_calls,
                 body |-> [ response |-> result.response,
                            tool_calls |-> result.tool_calls ],
                 executed |-> result.executed ]
    /\ UNCHANGED <<now, authVars, taskVars, chatVars, api_key, raceVars, cliVars>>

\* ------------------------------------------------------- inputs of a turn
RawMessages == { <<"Hello">>, <<" ", "Hello", " ">>, <<" ">> }

\* what the model may put into the arguments of a tool call
ToolCall(name, arguments) == [ name |-> name, arguments |-> arguments ]

ToolCallsOn(ids) ==
    { ToolCall("add_task", [title |-> "Buy groceries"]),
      ToolCall("list_tasks", [status |-> "pending"]),
      ToolCall("list_tasks", [status |-> "all"]),
      ToolCall("drop_tasks", [status |-> "all"]),
      ToolCall("complete_task", [title |-> "Buy groceries"]) }
    \cup { ToolCall("complete_task", [task_id |-> i]) : i \in ids }
    \cup { ToolCall("update_task", [task_id |-> i, title |-> "Updated"]) : i \in ids }
    \cup { ToolCall("delete_task", [task_id |-> i]) : i \in ids }

\* the same call with a user_id argument of the model's choosing
WithUserId(call, user_id) ==
    ToolCall(call.name, call.arguments @@ [user_id |-> user_id])

Completion(raises, content, tool_calls) ==
    [ raises |-> raises, content |-> content, tool_calls |-> tool_calls ]

Answers == { Completion(TRUE, NONE, << >>),
             Completion(FALSE, NONE, << >>),
             Completion(FALSE, <<"Hi!">>, << >>) }

Finals == { [raises |-> TRUE, content |-> NONE],
            [raises |-> FALSE, content |-> <<"Done!">>] }

\* the turns with tool calls: one call as the model states it, one call
\* with a user_id argument added, a call without a task id followed by
\* a call with a missing argument, and a call followed by one whose
\* arguments are not JSON
ToolTurns(ids, others) ==
    { Completion(FALSE, NONE, <<c>>) : c \in ToolCallsOn(ids) }
    \cup { Completion(FALSE, NONE, <<WithUserId(c, u)>>) :
             c \in ToolCallsOn(ids), u \in others }
    \cup { Completion(FALSE, NONE, <<c, ToolCall("delete_task", [title |-> "Updated"])>>) :
             c \in ToolCallsOn({}) }
    \cup { Completion(FALSE, NONE, <<ToolCall("add_task", [title |-> "Buy groceries"]),
                                     ToolCall("list_tasks", NotJson)>>) }

\* the table task after a task of alice has been stored at minute 0
SeedTasks4 == { Task4(1, "alice", "Buy groceries", NONE) }

InitAgent ==
    /\ now = 0
    /\ users = << >>
    /\ tokens = << >>
    /\ auth_events = {}
    /\ wrong_streak = << >>
    /\ tasks = {}
    /\ task_seq = 0
    /\ conversations = {}
    /\ conv_seq = 0
    /\ messages = << >>
    /\ msg_seq = 0
    /\ mcp_tasks = SeedTasks4
    /\ mcp_task_seq = Cardinality(SeedTasks4)
    /\ api_key \in BOOLEAN
    /\ agent_instance = NONE
    /\ inflight = << >>
    /\ todo_tasks = << >>
    /\ todo_next_id = 1
    /\ resp = [op |-> "none"]

\* the step leaves at most cap task ids issued
Tasks4Within(cap) == mcp_task_seq' <= cap

\* the ids issued to the seeded tasks and to one more
Tasks4Cap == Cardinality(SeedTasks4) + 1

NextAgent ==
    \/ \E user_id \in ChatUsers, completion \in Answers, final \in Finals :
          ProcessMessage(user_id, completion, final)
    \/ \E user_id \in ChatUsers, final \in Finals :
          \E completion \in ToolTurns(1..mcp_task_seq, ChatUsers \ {user_id}) :
             ProcessMessage(user_id, completion, final) /\ Tasks4Within(Tasks4Cap)

SpecAgent == InitAgent /\ [][NextAgent]_vars

\* the step leaves at most cap conversation ids issued
ConversationsWithin(cap) == conv_seq' <= cap

\* a turn, which saves two messages, leaves at most cap message ids issued
RoomForTurn(cap) == msg_seq + 2 <= cap

NextChat ==
    \/ /\ RoomForTurn(MaxChatMessages)
       /\ \E user_id \in ChatUsers, raw \in RawMessages,
             conversation_id \in {NULL} \cup (0..(conv_seq + 1)),
             completion \in Answers, final \in Finals :
             Chat(user_id, raw, conversation_id, completion, final)
                /\ ConversationsWithin(MaxConversations)
    \/ /\ RoomForTurn(MaxChatMessages)
       /\ \E user_id \in ChatUsers, conversation_id \in {NULL} \cup (1..conv_seq),
             final \in Finals :
             \E completion \in ToolTurns({1}, ChatUsers \ {user_id}) :
                Chat(user_id, <<"Hello">>, conversation_id, completion, final)
                   /\ ConversationsWithin(MaxConversations)
                   /\ Tasks4Within(Tasks4Cap)
    \/ Tick /\ ClockWithin(SlotMinutes)

SpecChat == InitAgent /\ [][NextChat]_vars

\* =================================== deleting a conversation (face-4)
\* the rows left in message when the conversation row alone is deleted
WithoutCascade(rows, conversation_id) == rows

\* cascade="all, delete-orphan" on Conversation.messages: the rows left in
\* message after the rows of the relationship have been deleted
Cascade(rows, conversation_id) ==
    SelectSeq(rows, LAMBDA m : m.conversation_id # conversation_id)

\* session.delete(conversation); session.commit()
DeleteConversation(conversation_id) ==
    /\ \E c \in conversations : c.id = conversation_id
    /\ conversations' = { c \in conversations : c.id # conversation_id }
    /\ messages' = Cascade(messages, conversation_id)
    /\ resp' = [ op |-> "delete_conversation", conversation_id |-> conversation_id ]
    /\ UNCHANGED <<now, authVars, taskVars, agentVars, raceVars, cliVars, conv_seq, msg_seq>>

\* messages are saved to the conversations that exist, as chat() does
NextCascade ==
    \/ \E user_id \in ChatUsers :
          CreateConversation(user_id) /\ ConversationsWithin(MaxConversations + 1)
    \/ \E c \in conversations, user_id \in ChatUsers :
          SaveMessage(c.id, user_id, RoleOfTurn(msg_seq + 1), msg_seq + 1)
             /\ MessagesWithin(MaxMessages)
    \/ \E conversation_id \in 1..conv_seq : DeleteConversation(conversation_id)

SpecCascade == InitConversations /\ [][NextCascade]_vars

\* ==================================================== console app (face-1)
\* a text is the sequence of its characters
MaxDescriptionLength == 500

\* the classes each exception is an instance of
ExceptionBases ==
    [ ValueError |-> {"ValueError", "Exception"},
      TaskNotFoundException |-> {"TaskNotFoundException", "TodoException", "Exception"} ]

IsInstance(exception, class) ==
    exception \in DOMAIN ExceptionBases /\ class \in ExceptionBases[exception]

\* not description or not description.strip()
Blank(description) == strip(description) = << >>

TooLong(description) == Len(description) > MaxDescriptionLength

\* Task.__init__: the stored description is stripped
CliTask(task_id, description) ==
    [ id |-> task_id, description |-> strip(description), completed |-> FALSE ]

\* the keys of TodoList._task_ids
TaskIds(rows) == { rows[i].id : i \in DOMAIN rows }

task_exists(task_id) == task_id \in TaskIds(todo_tasks)

\* the id _generate_next_id returns; _next_id is that id plus one afterwards
RECURSIVE generate_next_id(_, _)
generate_next_id(ids, next_id) ==
    IF next_id \in ids THEN generate_next_id(ids, next_id + 1) ELSE next_id

\* the outcome of a call: the exception raised, or NONE and the value returned
Raised(op, args, exception, message) ==
    [ op |-> op, args |-> args, raised |-> exception, message |-> message ]

ReturnedValue(op, args, value) ==
    [ op |-> op, args |-> args, raised |-> NONE, value |-> value ]

\* TodoList.add_task(description)
ListAddTask(max_tasks, description) ==
    /\ UNCHANGED <<now, authVars, taskVars, chatVars, agentVars, raceVars>>
    /\ IF Len(todo_tasks) >= max_tasks
       THEN /\ resp' = Raised("TodoList.add_task", <<description>>, "ValueError",
                              "Maximum task limit reached")
            /\ UNCHANGED cliVars
       ELSE IF Blank(description)
       THEN /\ resp' = Raised("TodoList.add_task", <<description>>, "ValueError",
                              "Task description cannot be empty")
            /\ UNCHANGED cliVars
       ELSE LET task_id == generate_next_id(TaskIds(todo_tasks), todo_next_id) IN
            /\ todo_next_id' = task_id + 1
            /\ IF TooLong(description)
               THEN \* Task.__init__ raises after the id has been taken
                    /\ resp' = Raised("TodoList.add_task", <<description>>, "ValueError",
                                      "Task description is too long (maximum 500 characters)")
                    /\ UNCHANGED todo_tasks
               ELSE /\ todo_tasks' = Append(todo_tasks, CliTask(task_id, description))
                    /\ resp' = ReturnedValue("TodoList.add_task", <<description>>, task_id)

\* TodoService.add_task(description)
ServiceAddTask(max_tasks, description) ==
    IF Blank(description)
    THEN /\ resp' = Raised("TodoService.add_task", <<description>>, "ValueError",
                           "Task description cannot be empty")
         /\ UNCHANGED <<now, authVars, taskVars, chatVars, agentVars, raceVars, cliVars>>
    ELSE IF TooLong(description)
    THEN /\ resp' = Raised("TodoService.add_task", <<description>>, "ValueError",
                           "Task description is too long (maximum 500 characters)")
         /\ UNCHANGED <<now, authVars, taskVars, chatVars, agentVars, raceVars, cliVars>>
    ELSE ListAddTask(max_tasks, description)

\* TodoService.update_task(task_id, new_description)
ServiceUpdateTask(task_id, new_description) ==
    /\ UNCHANGED <<now, authVars, taskVars, chatVars, agentVars, raceVars, todo_next_id>>
    /\ IF Blank(new_description)
       THEN /\ resp' = Raised("TodoService.update_task", <<task_id, new_description>>,
                              "ValueError", "Task description cannot be empty")
            /\ UNCHANGED todo_tasks
       ELSE IF TooLong(new_description)
       THEN /\ resp' = Raised("TodoService.update_task", <<task_id, new_description>>,
                              "ValueError",
                              "Task description is too long (maximum 500 characters)")
            /\ UNCHANGED todo_tasks
       ELSE IF ~task_exists(task_id)
       THEN /\ resp' = Raised("TodoService.update_task", <<task_id, new_description>>,
                              "TaskNotFoundException", "Task with ID not found")
            /\ UNCHANGED todo_tasks
       ELSE /\ todo_tasks' = [ i \in DOMAIN todo_tasks |->
                                 IF todo_tasks[i].id = task_id
                                 THEN [todo_tasks[i] EXCEPT
                                         !.description = strip(new_description)]
                                 ELSE todo_tasks[i] ]
            /\ resp' = ReturnedValue("TodoService.update_task",
                                     <<task_id, new_description>>, TRUE)

\* TodoService.delete_task(task_id)
ServiceDeleteTask(task_id) ==
    /\ UNCHANGED <<now, authVars, taskVars, chatVars, agentVars, raceVars, todo_next_id>>
    /\ IF ~task_exists(task_id)
       THEN /\ resp' = Raised("TodoService.delete_task", <<task_id>>,
                              "TaskNotFoundException", "Task with ID not found")
            /\ UNCHANGED todo_tasks
       ELSE /\ todo_tasks' = SelectSeq(todo_tasks, LAMBDA t : t.id # task_id)
            /\ resp' = ReturnedValue("TodoService.delete_task", <<task_id>>, TRUE)

\* the descriptions of the tests: "", "   ", "Test task", " Task 1 ",
\* "x" * 500 and "x" * 501
Descriptions ==
    { << >>, <<" ", " ", " ">>, <<"T", "e", "s", "t">>, <<" ", "T", "1", " ">>,
      [i \in 1..MaxDescriptionLength |-> "x"],
      [i \in 1..(MaxDescriptionLength + 1) |-> "x"] }

\* the step leaves _next_id at or below cap
TodoIdsWithin(cap) == todo_next_id' <= cap

\* ids are taken by the tasks the list can hold and by two more calls
TodoIdsCap == MaxTodoTasks + 3

NextConsole ==
    \/ \E description \in Descriptions :
          ListAddTask(MaxTodoTasks, description) /\ TodoIdsWithin(TodoIdsCap)
    \/ \E description \in Descriptions :
          ServiceAddTask(MaxTodoTasks, description) /\ TodoIdsWithin(TodoIdsCap)
    \/ \E task_id \in 1..TodoIdsCap, new_description \in Descriptions :
          ServiceUpdateTask(task_id, new_description)
    \/ \E task_id \in 1..TodoIdsCap : ServiceDeleteTask(task_id)

SpecConsole == InitEmpty /\ [][NextConsole]_vars

\* ============================ requests of two server processes (face-4)
\* Each server process runs its handler statement by statement against the
\* shared database: what a handler has selected stays in its session until
\* its commit.  inflight[p] holds the request process p is handling, the
\* statement it has reached (pc) and the rows it has loaded; a request that
\* was answered stays there with its response.
Processes == {"p1", "p2"}

Idle == [pc |-> "idle"]

Answered(request, response) ==
    [ pc |-> "done", op |-> request.op, request |-> request, response |-> response ]

\* ---------------------------------------- GET /verify-email, by statement
\* the selects of the token and of its user, and the checks between them
VerifyBegin(p, token) ==
    /\ inflight[p].pc = "idle"
    /\ LET request == [op |-> "verify_email", token |-> token]
           rejection == VerifyRejection(token)
       IN
       IF rejection # NONE
       THEN LET response == [ op |-> "verify_email", token |-> token, status |-> 400,
                              detail |-> rejection ] IN
            /\ inflight' = [inflight EXCEPT ![p] = Answered(request, response)]
            /\ resp' = response
       ELSE IF tokens[token].user_id \notin DOMAIN users
       THEN LET response == [ op |-> "verify_email", token |-> token, status |-> 404,
                              detail |-> "User not found" ] IN
            /\ inflight' = [inflight EXCEPT ![p] = Answered(request, response)]
            /\ resp' = response
       ELSE /\ inflight' = [inflight EXCEPT ![p] =
                               [ pc |-> "commit", op |-> "verify_email", token |-> token,
                                 user_id |-> tokens[token].user_id ]]
            /\ UNCHANGED resp
    /\ UNCHANGED <<now, authVars, taskVars, chatVars, agentVars, cliVars>>

\* user.is_verified = True ... session.commit(): the UPDATE of both rows
VerifyCommit(p) ==
    /\ inflight[p].pc = "commit"
    /\ inflight[p].op = "verify_email"
    /\ users' = [users EXCEPT ![inflight[p].user_id] =
                    [@ EXCEPT !.is_verified = TRUE, !.updated_at = now]]
    /\ tokens' = [tokens EXCEPT ![inflight[p].token] = [@ EXCEPT !.verified_at = now]]
    /\ inflight' = [inflight EXCEPT ![p].pc = "log"]
    /\ UNCHANGED <<now, auth_events, wrong_streak, taskVars, chatVars, agentVars,
                   cliVars, resp>>

\* the AuthEvent, its commit, and the response
VerifyLog(p) ==
    /\ inflight[p].pc = "log"
    /\ inflight[p].op = "verify_email"
    /\ LET response == [ op |-> "verify_email", token |-> inflight[p].token,
                         status |-> 200,
                         message |-> "Email verified successfully. You can now login.",
                         user_id |-> inflight[p].user_id ]
       IN
       /\ auth_events' = auth_events \cup
              {AuthEvent(inflight[p].user_id, "email_verification", TRUE, NONE)}
       /\ inflight' = [inflight EXCEPT ![p] =
                          Answered([op |-> "verify_email", token |-> inflight[p].token],
                                   response)]
       /\ resp' = response
    /\ UNCHANGED <<now, users, tokens, wrong_streak, taskVars, chatVars, agentVars,
                   cliVars>>

\* the database after a@example.com has registered and asked for a second
\* token at minute 0
InitVerifyRace ==
    /\ now = 0
    /\ users = << User("a@example.com", hash_password(SeedPassword), FALSE, 0, NULL) >>
    /\ tokens = << VerificationToken(1, now + TokenExpirationMinutes),
                VerificationToken(1, now + TokenExpirationMinutes) >>
    /\ auth_events = {AuthEvent(1, "registration", TRUE, NONE)}
    /\ wrong_streak = <<0>>
    /\ tasks = {}
    /\ task_seq = 0
    /\ conversations = {}
    /\ conv_seq = 0
    /\ messages = << >>
    /\ msg_seq = 0
    /\ mcp_tasks = {}
    /\ mcp_task_seq = 0
    /\ api_key = FALSE
    /\ agent_instance = NONE
    /\ inflight = [p \in Processes |-> Idle]
    /\ todo_tasks = << >>
    /\ todo_next_id = 1
    /\ resp = [op |-> "none"]

NextVerifyRace ==
    \/ \E p \in Processes, token \in 1..(Len(tokens) + 1) : VerifyBegin(p, token)
    \/ \E p \in Processes : VerifyCommit(p)
    \/ \E p \in Processes : VerifyLog(p)
    \/ Tick /\ ClockWithin(DayMinutes + SlotMinutes)

SpecVerifyRace == InitVerifyRace /\ [][NextVerifyRace]_vars

\* ------------------------------------------------ POST /login, by statement
\* the select of the user
LoginBegin(p, email, password) ==
    /\ inflight[p].pc = "idle"
    /\ LET request == [op |-> "login", email |-> email, password |-> password]
           user == UserByEmail(email)
       IN
       IF user = NULL
       THEN LET response == [ op |-> "login", email |-> email, password |-> password,
                              status |-> 401, detail |-> "User not found in database" ] IN
            /\ inflight' = [inflight EXCEPT ![p] = Answered(request, response)]
            /\ resp' = response
       ELSE /\ inflight' = [inflight EXCEPT ![p] =
                               [ pc |-> "commit", op |-> "login", email |-> email,
                                 password |-> password, user_id |-> user,
                                 failed_login_attempts |->
                                    users[user].failed_login_attempts ]]
            /\ UNCHANGED resp
    /\ UNCHANGED <<now, authVars, taskVars, chatVars, agentVars, cliVars>>

\* "DEVELOPMENT MODE": the reset of the user row, the AuthEvent, the commit
\* and the response; the statements after the return are never executed
LoginCommit(p) ==
    /\ inflight[p].pc = "commit"
    /\ inflight[p].op = "login"
    /\ LET user == inflight[p].user_id
           response == [ op |-> "login", email |-> inflight[p].email,
                         password |-> inflight[p].password, status |-> 200,
                         access_token |-> create_access_token(user, AccessTokenMinutes),
                         token_type |-> "bearer",
                         expires_in |-> ExpiresInSeconds,
                         user |-> [id |-> user, email |-> inflight[p].email] ]
       IN
       /\ users' = LoginOk(user)
       /\ auth_events' = auth_events \cup {AuthEvent(user, "login", TRUE, NONE)}
       /\ wrong_streak' = [wrong_streak EXCEPT ![user] =
                              StreakAfter(user, inflight[p].password)]
       /\ inflight' = [inflight EXCEPT ![p] =
                          Answered([ op |-> "login", email |-> inflight[p].email,
                                     password |-> inflight[p].password,
                                     user_id |-> user,
                                     failed_login_attempts |->
                                        inflight[p].failed_login_attempts ],
                                   response)]
       /\ resp' = response
    /\ UNCHANGED <<now, tokens, taskVars, chatVars, agentVars, cliVars>>

\* the seeded database, with both processes idle
InitLoginRace ==
    /\ now = 0
    /\ users = SeedUsers
    /\ tokens = SeedTokens
    /\ auth_events = {}
    /\ wrong_streak = [u \in DOMAIN SeedUsers |-> 0]
    /\ tasks = {}
    /\ task_seq = 0
    /\ conversations = {}
    /\ conv_seq = 0
    /\ messages = << >>
    /\ msg_seq = 0
    /\ mcp_tasks = {}
    /\ mcp_task_seq = 0
    /\ api_key = FALSE
    /\ agent_instance = NONE
    /\ inflight = [p \in Processes |-> Idle]
    /\ todo_tasks = << >>
    /\ todo_next_id = 1
    /\ resp = [op |-> "none"]

NextLoginRace ==
    \/ \E p \in Processes, email \in LoginEmails, password \in Passwords :
          LoginBegin(p, email, password)
    \/ \E p \in Processes : LoginCommit(p)
    \/ Tick /\ ClockWithin(SlotMinutes)

SpecLoginRace == InitLoginRace /\ [][NextLoginRace]_vars

\* ------------------------------------------------- POST /chat, by statement
\* validation, the lookup or creation of the conversation, and the
\* save_message of the user message with its commit
ChatBegin(p, user_id, raw, conversation_id) ==
    /\ inflight[p].pc = "idle"
    /\ LET request == [ op |-> "chat", user_id |-> user_id, raw |-> raw,
                        conversation_id |-> conversation_id ]
       IN
       IF ~ChatRequestValid(raw)
       THEN LET response == [ op |-> "chat", user_id |-> user_id, raw |-> raw,
                              conversation_id |-> conversation_id, status |-> 422 ] IN
            /\ inflight' = [inflight EXCEPT ![p] = Answered(request, response)]
            /\ resp' = response
            /\ UNCHANGED chatVars
       ELSE IF conversation_id \notin {NULL, 0}
               /\ get_conversation(conversation_id, user_id) = {}
       THEN LET response == [ op |-> "chat", user_id |-> user_id, raw |-> raw,
                              conversation_id |-> conversation_id, status |-> 404,
                              detail |-> "Conversation not found" ] IN
            /\ inflight' = [inflight EXCEPT ![p] = Answered(request, response)]
            /\ resp' = response
            /\ UNCHANGED chatVars
       ELSE LET created == conversation_id \in {NULL, 0}
                id == IF created THEN conv_seq + 1 ELSE conversation_id
                own == Message(msg_seq + 1, id, user_id, "user", strip(raw))
            IN
            /\ conv_seq' = IF created THEN conv_seq + 1 ELSE conv_seq
            /\ conversations' =
                  IF created
                  THEN conversations \cup {Conversation(id, user_id)}
                  ELSE Touched(id)
            /\ messages' = Append(messages, own)
            /\ msg_seq' = msg_seq + 1
            /\ inflight' = [inflight EXCEPT ![p] = request @@
                               [ pc |-> "load", conversation |-> id, own |-> own ]]
            /\ UNCHANGED resp
    /\ UNCHANGED <<now, authVars, taskVars, agentVars, cliVars>>

\* history[:-1]
AllButLast(history) == SubSeq(history, 1, Len(history) - 1)

\* load_history(conversation.id, user_id, session, limit=50); loaded keeps
\* the rows behind the history
ChatLoad(p) ==
    /\ inflight[p].pc = "load"
    /\ \E rows \in NewestFirst(HistoryRows(inflight[p].conversation, inflight[p].user_id)) :
          inflight' = [inflight EXCEPT ![p] =
                         [ pc |-> "reply",
                           loaded |-> Reversed(Page(rows, DefaultHistoryLimit)),
                           history |-> History(rows, DefaultHistoryLimit) ] @@ @]
    /\ UNCHANGED <<now, authVars, taskVars, chatVars, agentVars, cliVars, resp>>

\* get_agent(), process_message with conversation_history=history[:-1], the
\* save_message of the reply, and the response
ChatReply(p, completion, final) ==
    /\ inflight[p].pc = "reply"
    /\ LET r == inflight[p]
           agent == get_agent
           result == process_message(agent, r.user_id, completion, final)
           request == [ op |-> "chat", user_id |-> r.user_id, raw |-> r.raw,
                        conversation_id |-> r.conversation_id,
                        conversation |-> r.conversation, own |-> r.own,
                        loaded |-> r.loaded, history |-> r.history,
                        conversation_history |-> AllButLast(r.history) ]
       IN
       /\ agent_instance' = agent
       /\ mcp_tasks' = result.store
       /\ mcp_task_seq' = result.seq
       /\ IF result.raised
          THEN LET response == [ op |-> "chat", user_id |-> r.user_id, raw |-> r.raw,
                                 conversation_id |-> r.conversation_id,
                                 status |-> 500 ] IN
               /\ inflight' = [inflight EXCEPT ![p] = Answered(request, response)]
               /\ resp' = response
               /\ UNCHANGED chatVars
          ELSE LET response == [ op |-> "chat", user_id |-> r.user_id, raw |-> r.raw,
                                 conversation_id |-> r.conversation_id, status |-> 200,
                                 body |-> [ conversation_id |-> r.conversation,
                                            response |-> result.response,
                                            tool_calls |-> result.tool_calls ] ] IN
               /\ messages' = Append(messages,
                                 Message(msg_seq + 1, r.conversation, r.user_id,
                                         "assistant", result.response))
               /\ msg_seq' = msg_seq + 1
               /\ conversations' = Touched(r.conversation)
               /\ UNCHANGED conv_seq
               /\ inflight' = [inflight EXCEPT ![p] = Answered(request, response)]
               /\ resp' = response
    /\ UNCHANGED <<now, authVars, taskVars, api_key, cliVars>>

\* the messages the two clients send
RaceMessages == { <<"Hello">>, <<"Bye">>, <<" ">> }

\* the database after create_conversation("alice") at minute 0, with an
\* OPENAI_API_KEY in the environment
InitChatRace ==
    /\ now = 0
    /\ users = << >>
    /\ tokens = << >>
    /\ auth_events = {}
    /\ wrong_streak = << >>
    /\ tasks = {}
    /\ task_seq = 0
    /\ conversations = {Conversation(1, "alice")}
    /\ conv_seq = 1
    /\ messages = << >>
    /\ msg_seq = 0
    /\ mcp_tasks = {}
    /\ mcp_task_seq = 0
    /\ api_key = TRUE
    /\ agent_instance = NONE
    /\ inflight = [p \in Processes |-> Idle]
    /\ todo_tasks = << >>
    /\ todo_next_id = 1
    /\ resp = [op |-> "none"]

NextChatRace ==
    \/ \E p \in Processes, user_id \in ChatUsers, raw \in RaceMessages,
          conversation_id \in {NULL} \cup (1..conv_seq) :
          ChatBegin(p, user_id, raw, conversation_id)
             /\ ConversationsWithin(MaxConversations)
    \/ \E p \in Processes : ChatLoad(p)
    \/ \E p \in Processes, completion \in Answers, final \in Finals :
          ChatReply(p, completion, final)
    \/ Tick /\ ClockWithin(SlotMinutes)

SpecChatRace == InitChatRace /\ [][NextChatRace]_vars

\* ------------------------------------------------------- claims about login
IsLogin(r) == r.op = "login"
Detail(r) == IF "detail" \in DOMAIN r THEN r.detail ELSE NONE
IssuesToken(r) == "access_token" \in DOMAIN r
Locked(u) == users[u].locked_until # NULL /\ users[u].locked_until > now

\* C1: the fifth consecutive wrong-password login of an account leaves its
\* locked_until in the future, and a login of an account whose locked_until
\* has not passed is answered 403, whatever the password.
C1_LockoutAfterFiveFailures ==
    [][ \A u \in DOMAIN users :
          (IsLogin(resp') /\ resp'.email = users[u].email) =>
             /\ Locked(u) => resp'.status = 403
             /\ (wrong_streak[u] = 4 /\ wrong_streak'[u] = 5) =>
                    (users'[u].locked_until # NULL /\ users'[u].locked_until > now')
      ]_vars

\* C2: a login of an existing account with a password that does not match
\* the stored hash is answered 401 and carries no access token.
C2_WrongPasswordRejected ==
    IsLogin(resp) =>
        LET u == UserByEmail(resp.email) IN
        (u # NULL /\ ~verify_password(resp.password, users[u].password_hash)) =>
            (resp.status = 401 /\ ~IssuesToken(resp))

\* C3: a login that returns an access token leaves the account with
\* failed_login_attempts = 0, locked_until = null and last_login_at set.
C3_SuccessfulLoginResets ==
    (IsLogin(resp) /\ IssuesToken(resp)) =>
        LET u == resp.user.id IN
        /\ users[u].failed_login_attempts = 0
        /\ users[u].locked_until = NULL
        /\ users[u].last_login_at = now

\* the seeded locked account (5 failed attempts, lock running) has logged in
C3_Witness ==
    /\ IsLogin(resp) /\ IssuesToken(resp)
    /\ resp.user.id = 3
    /\ now < SeedUsers[3].locked_until

\* C4: a login of an account with is_verified = false is answered 403 and
\* carries no access token.
C4_UnverifiedRejected ==
    IsLogin(resp) =>
        LET u == UserByEmail(resp.email) IN
        (u # NULL /\ ~users[u].is_verified) =>
            (resp.status = 403 /\ ~IssuesToken(resp))

UnknownEmailLogin(r) == IsLogin(r) /\ UserByEmail(r.email) = NULL
WrongPasswordLogin(r) ==
    /\ IsLogin(r)
    /\ UserByEmail(r.email) # NULL
    /\ ~verify_password(r.password, users[UserByEmail(r.email)].password_hash)

\* C5: a login with an unknown email and a login of an existing account
\* with a wrong password get the same status code and the same message.
C5_NoUserEnumeration ==
    [][ (UnknownEmailLogin(resp) /\ WrongPasswordLogin(resp')) =>
            (resp'.status = resp.status /\ Detail(resp') = Detail(resp)) ]_vars

\* ------------------------------------------- claims about verification tokens
IsVerify(r, t) == r.op = "verify_email" /\ r.token = t

\* C6: once verify-email has succeeded with a token (its verified_at is set),
\* verified_at stays as it is and every later verify-email with that token is
\* answered 400 "already used" and changes no user and no token.
C6_UsedTokenRejected ==
    [][ /\ \A t \in DOMAIN tokens' :
             (IsVerify(resp', t) /\ resp'.status = 200) => tokens'[t].verified_at # NULL
        /\ \A t \in DOMAIN tokens :
             tokens[t].verified_at # NULL =>
                /\ tokens'[t].verified_at = tokens[t].verified_at
                /\ IsVerify(resp', t) =>
                      /\ resp'.status = 400
                      /\ resp'.detail = "Verification token has already been used"
                      /\ users' = users
                      /\ tokens' = tokens
      ]_vars

\* a used token has been presented again, while it is not expired, and refused
C6_Witness ==
    /\ resp.op = "verify_email"
    /\ resp.token \in DOMAIN tokens
    /\ tokens[resp.token].verified_at # NULL
    /\ tokens[resp.token].verified_at < now
    /\ tokens[resp.token].expires_at >= now
    /\ resp.status = 400

\* C7: verify-email with an unused token whose expires_at is before now is
\* answered 400 "expired"; the user row is left as it was (an unverified user
\* stays unverified) and the token's verified_at stays unset.
C7_ExpiredTokenRejected ==
    [][ \A t \in DOMAIN tokens :
          ( /\ IsVerify(resp', t)
            /\ tokens[t].verified_at = NULL
            /\ tokens[t].expires_at < now ) =>
               /\ resp'.status = 400
               /\ resp'.detail = "Verification token has expired. Please request a new one."
               /\ users' = users
               /\ tokens'[t].verified_at = NULL
               /\ tokens' = tokens
      ]_vars

\* an unused, expired token of an unverified user has been presented and refused
C7_Witness ==
    /\ resp.op = "verify_email"
    /\ resp.token \in DOMAIN tokens
    /\ tokens[resp.token].verified_at = NULL
    /\ tokens[resp.token].expires_at < now
    /\ ~users[tokens[resp.token].user_id].is_verified
    /\ resp.status = 400

\* the tokens of user u created in the hour that ends at instant t
\* (after t - 60 minutes, up to t)
TokensInWindow(u, t) ==
    { k \in DOMAIN tokens :
        /\ tokens[k].user_id = u
        /\ tokens[k].created_at > t - HourMinutes
        /\ tokens[k].created_at <= t }

WindowsWithinLimit ==
    \A u \in DOMAIN users : \A k \in DOMAIN tokens :
        Cardinality(TokensInWindow(u, tokens[k].created_at)) <= 3

\* C8: no rolling hour holds more than 3 tokens of one user, and a resend
\* for an unverified user who already has 3 tokens in the hour that ends now
\* is answered 429 and creates no token.
C8_ResendRateLimit ==
    [][ /\ WindowsWithinLimit'
        /\ \A u \in DOMAIN users :
             ( /\ resp'.op = "resend_verification"
               /\ resp'.email = users[u].email
               /\ ~users[u].is_verified
               /\ Cardinality(TokensInWindow(u, now)) >= 3 ) =>
                  (resp'.status = 429 /\ tokens' = tokens)
      ]_vars

\* a resend has been refused for a user who holds 3 tokens of the last hour
\* and an older one: the window has moved on since the first issuances
C8_Witness ==
    /\ resp.op = "resend_verification"
    /\ resp.status = 429
    /\ \E u \in DOMAIN users :
          /\ users[u].email = resp.email
          /\ Cardinality(TokensInWindow(u, now)) = 3
          /\ Cardinality({k \in DOMAIN tokens : tokens[k].user_id = u}) = 4

\* ------------------------------------------------------ claims about tasks
TaskRequest(r) == r.op \in {"get_task", "update_task", "delete_task"}
RejectedBody(r) == r.op = "update_task" /\ ~(("status" \in DOMAIN r.data) => r.data.status \in {"pending", "completed"})
ForeignTo(owner, task_id) == \E t \in tasks : t.id = task_id /\ t.user_id # owner
Missing(task_id) == ~\E t \in tasks : t.id = task_id

\* C9: get, update and delete by owner A on the id of a task owned by B are
\* answered as on an id that does not exist (404 "Task not found", no task
\* data) and leave every task unchanged; the list of A holds only tasks of A.
C9_OwnerIsolation ==
    [][ /\ (TaskRequest(resp') /\ ~RejectedBody(resp')
             /\ (ForeignTo(resp'.caller, resp'.task_id) \/ Missing(resp'.task_id))) =>
               /\ resp'.status = 404
               /\ resp'.detail = "Task not found"
               /\ "body" \notin DOMAIN resp'
               /\ tasks' = tasks
        /\ (TaskRequest(resp') /\ ForeignTo(resp'.caller, resp'.task_id)) =>
               /\ "body" \notin DOMAIN resp'
               /\ tasks' = tasks
        /\ resp'.op = "list_tasks" =>
               /\ \A i \in DOMAIN resp'.body : resp'.body[i].user_id = resp'.caller
               /\ tasks' = tasks
      ]_vars

\* owner A has asked for the existing task of owner B and got 404
C9_Witness ==
    /\ TaskRequest(resp)
    /\ resp.status = 404
    /\ ForeignTo(resp.caller, resp.task_id)
    /\ \E t \in tasks : t.user_id = resp.caller

\* ---------------------------------------------------- claims about history
\* the messages of the conversation that belong to user_id
MessagesOf(conversation_id, user_id) ==
    { m \in { messages[i] : i \in DOMAIN messages } :
        m.conversation_id = conversation_id /\ m.user_id = user_id }

\* the r-th message of M in insertion order
Nth(M, r) == CHOOSE m \in M : Cardinality({ x \in M : x.id < m.id }) = r - 1

DistinctTimes(M) == \A x, y \in M : x # y => x.created_at # y.created_at

\* C10: load_history with limit k on a conversation holding n messages of
\* the user returns min(k, n) distinct messages of it, in ascending created_at,
\* none older than a message left out; when the created_at of the n messages
\* differ, they are exactly the last min(k, n) messages, oldest first.
C10_LoadHistoryWindow ==
    resp.op = "load_history" =>
        LET M == MessagesOf(resp.conversation_id, resp.user_id)
            n == Cardinality(M)
            k == resp.limit
            h == resp.body
            Row(i) == CHOOSE m \in M : m.content = h[i].content
        IN
        /\ Len(h) = Min(k, n)
        /\ \A i \in 1..Len(h) :
              \E m \in M : m.content = h[i].content /\ m.role = h[i].role
        /\ \A i, j \in 1..Len(h) : i < j =>
              /\ h[i].content # h[j].content
              /\ Row(i).created_at <= Row(j).created_at
        /\ \A m \in M : (\A i \in 1..Len(h) : h[i].content # m.content) =>
              \A i \in 1..Len(h) : m.created_at <= Row(i).created_at
        /\ DistinctTimes(M) =>
              \A i \in 1..Len(h) : h[i].content = Nth(M, n - Len(h) + i).content

\* a limit of 2 on a conversation of 3 messages saved at 3 instants
C10_Witness ==
    /\ resp.op = "load_history"
    /\ resp.limit = 2
    /\ Cardinality(MessagesOf(resp.conversation_id, resp.user_id)) = 3
    /\ DistinctTimes(MessagesOf(resp.conversation_id, resp.user_id))
    /\ Len(resp.body) = 2

\* ------------------------------------------------- claims about the chatbot
ChatOk(r) == r.op = "chat" /\ r.status = 200

\* C11: a chat request answered 200 appends exactly two messages to its
\* conversation and nothing else to the table: first the user's message,
\* holding the request's message as the request schema validated it, then
\* the assistant's, holding the returned response; no tool result is a row.
C11_TurnPersistsTwoMessages ==
    [][ ChatOk(resp') =>
          LET n == Len(messages)
              id == resp'.body.conversation_id
          IN
          /\ Len(messages') = n + 2
          /\ SubSeq(messages', 1, n) = messages
          /\ messages'[n + 1].role = "user"
          /\ messages'[n + 1].content = strip(resp'.raw)
          /\ messages'[n + 2].role = "assistant"
          /\ messages'[n + 2].content = resp'.body.response
          /\ messages'[n + 1].id < messages'[n + 2].id
          /\ \A i \in {n + 1, n + 2} :
                /\ messages'[i].conversation_id = id
                /\ messages'[i].user_id = resp'.user_id
      ]_vars

\* a second turn of a conversation, on padded input, after a turn in
\* which a tool ran
C11_Witness ==
    /\ ChatOk(resp)
    /\ resp.raw = <<" ", "Hello", " ">>
    /\ resp.conversation_id = 1
    /\ Len(messages) = 4
    /\ messages[2].content = <<"Done!">>
    /\ messages[3].content = <<"Hello">>
    /\ \A i \in DOMAIN messages : messages[i].conversation_id = 1

IsTurn(r) == r.op = "process_message"

\* C12: every tool operation executed in a turn runs with the caller as
\* user_id and selects only rows of the caller; the rows of every other
\* owner are the same after the turn, and every row the turn added or
\* changed belongs to the caller.
C12_ToolsRunAsCaller ==
    [][ IsTurn(resp') =>
          /\ \A i \in DOMAIN resp'.executed :
                /\ resp'.executed[i].user_id = resp'.user_id
                /\ \A t \in resp'.executed[i].selected : t.user_id = resp'.user_id
          /\ \A t \in mcp_tasks : t.user_id # resp'.user_id => t \in mcp_tasks'
          /\ \A t \in mcp_tasks' \ mcp_tasks : t.user_id = resp'.user_id
      ]_vars

\* bob's turn in which the model asked to delete alice's task 1 and named
\* alice as user_id: the tool ran, for bob, and found nothing
C12_Witness ==
    /\ IsTurn(resp)
    /\ resp.user_id = "bob"
    /\ Len(resp.calls) = 1
    /\ resp.calls[1].name = "delete_task"
    /\ resp.calls[1].arguments = [task_id |-> 1, user_id |-> "alice"]
    /\ Len(resp.executed) = 1
    /\ resp.body.tool_calls[1].error_message = "Task not found"
    /\ \E t \in mcp_tasks : t.id = 1 /\ t.user_id = "alice"

\* C19: without an OPENAI_API_KEY every turn returns the fixed reply and
\* an empty tool_calls list, executes no tool and leaves the table task as
\* it was.
C19_NoKeyNoTools ==
    [][ (IsTurn(resp') /\ ~api_key) =>
          /\ resp'.body.response = UnavailableReply
          /\ resp'.body.tool_calls = << >>
          /\ resp'.executed = << >>
          /\ mcp_tasks' = mcp_tasks
          /\ mcp_task_seq' = mcp_task_seq
      ]_vars

\* alice's turn without a key, in which the model would have deleted her task
C19_Witness ==
    /\ IsTurn(resp)
    /\ ~api_key
    /\ resp.agent = "no_client"
    /\ resp.user_id = "alice"
    /\ Len(resp.calls) = 1
    /\ resp.calls[1] = ToolCall("delete_task", [task_id |-> 1])
    /\ mcp_tasks = SeedTasks4

\* ------------------------------------- claims about deleting a conversation
IsDeleteConversation(r) == r.op = "delete_conversation"

\* C13: after a conversation is deleted no message carries its id, the
\* messages of every other conversation are the rows they were, in the
\* order they were, and every other conversation row is unchanged.
C13_CascadeDelete ==
    [][ IsDeleteConversation(resp') =>
          LET id == resp'.conversation_id IN
          /\ \A i \in DOMAIN messages' : messages'[i].conversation_id # id
          /\ \A c \in conversations' : c.id # id
          /\ \A c \in conversations : c.id # id => c \in conversations'
          /\ conversations' \subseteq conversations
          /\ messages' = SelectSeq(messages, LAMBDA m : m.conversation_id # id)
      ]_vars

\* conversation 1 has just been deleted with its messages, and messages of
\* another conversation, saved before and between them, are still stored
C13_Witness ==
    /\ IsDeleteConversation(resp)
    /\ resp.conversation_id = 1
    /\ msg_seq = 3
    /\ Len(messages) = 1
    /\ messages[1].id = 2
    /\ messages[1].conversation_id = 2
    /\ \E c \in conversations : c.id = 2

\* ------------------------------------------------ claims about registration
IsRegister(r) == r.op = "register"
EmailsUnique(rows) ==
    \A u, v \in DOMAIN rows : rows[u].email = rows[v].email => u = v

\* C14: a register request for an email that a user already has is
\* answered 400 and leaves the tables users and verification_tokens as
\* they were; no two users ever share an email.
C14_DuplicateEmailRejected ==
    [][ /\ (IsRegister(resp') /\ \E u \in DOMAIN users : users[u].email = resp'.email) =>
             /\ resp'.status = 400
             /\ users' = users
             /\ tokens' = tokens
        /\ EmailsUnique(users')
      ]_vars

\* both emails are registered and a third request repeated one of them
C14_Witness ==
    /\ IsRegister(resp)
    /\ resp.status = 400
    /\ Len(users) = 2
    /\ Len(tokens) = 2
    /\ \E u \in DOMAIN users : users[u].email = resp.email

\* C15: a register request for a new email is answered 201 whether or not
\* the verification mail could be sent; it adds one user, unverified and
\* active, and one verification token of that user, not yet used, that
\* expires 24 hours after it was issued.
C15_RegisterCreatesUserAndToken ==
    [][ (IsRegister(resp') /\ \A u \in DOMAIN users : users[u].email # resp'.email) =>
          LET user == Len(users) + 1
              token == Len(tokens) + 1
          IN
          /\ resp'.status = 201
          /\ resp'.user_id = user
          /\ Len(users') = user
          /\ SubSeq(users', 1, Len(users)) = users
          /\ users'[user].email = resp'.email
          /\ users'[user].is_verified = FALSE
          /\ users'[user].is_active = TRUE
          /\ Len(tokens') = token
          /\ SubSeq(tokens', 1, Len(tokens)) = tokens
          /\ tokens'[token].user_id = user
          /\ tokens'[token].verified_at = NULL
          /\ tokens'[token].created_at = now'
          /\ tokens'[token].expires_at = tokens'[token].created_at + 24 * 60
      ]_vars

\* a registration went through although its mail could not be sent
C15_Witness ==
    /\ IsRegister(resp)
    /\ resp.status = 201
    /\ ~resp.email_sent
    /\ users[resp.user_id].email = resp.email
    /\ \E t \in DOMAIN tokens : tokens[t].user_id = resp.user_id

\* ---------------------------------------------- claims about the task store
IsDeleteTask(r) == r.op = "delete_task"
IsUpdateTask(r) == r.op = "update_task"
StatusValues == {"pending", "completed"}

\* C16: a delete of a stored task by its owner is answered 204 and removes
\* that task and no other; a delete of an id whose task has been deleted is
\* answered 404 "Task not found" and leaves the table as it was.
C16_SecondDeleteNotFound ==
    [][ IsDeleteTask(resp') =>
          LET id == resp'.task_id IN
          /\ (\E t \in tasks : t.id = id /\ t.user_id = resp'.caller) =>
                /\ resp'.status = 204
                /\ tasks' = { t \in tasks : t.id # id }
          /\ (id <= task_seq /\ \A t \in tasks : t.id # id) =>
                /\ resp'.status = 404
                /\ resp'.detail = "Task not found"
                /\ tasks' = tasks
          /\ task_seq' = task_seq
      ]_vars

\* task 1 was created and deleted, and a further delete of it was refused
\* while task 2 is stored
C16_Witness ==
    /\ IsDeleteTask(resp)
    /\ resp.status = 404
    /\ resp.task_id = 1
    /\ task_seq = 2
    /\ \A t \in tasks : t.id # 1
    /\ \E t \in tasks : t.id = 2 /\ t.user_id = resp.caller

\* C17: a PATCH answered 200 replaces one task of the caller by a row that
\* holds the supplied values in the supplied fields and the time of the
\* request in updated_at and is equal to the old row in every other field,
\* id, user_id and created_at among them; no other row changes.
C17_PatchFrame ==
    [][ (IsUpdateTask(resp') /\ resp'.status = 200) =>
          \E t \in tasks :
             LET u == resp'.body IN
             /\ t.id = resp'.task_id
             /\ t.user_id = resp'.caller
             /\ tasks' = (tasks \ {t}) \cup {u}
             /\ \A f \in DOMAIN resp'.data : u[f] = resp'.data[f]
             /\ u.updated_at = now'
             /\ \A f \in DOMAIN t \ (DOMAIN resp'.data \cup {"updated_at"}) : u[f] = t[f]
             /\ u.id = t.id /\ u.user_id = t.user_id /\ u.created_at = t.created_at
      ]_vars

\* a title-only PATCH of a task that was completed earlier, at a later time
\* than its creation, with another task stored
C17_Witness ==
    /\ IsUpdateTask(resp)
    /\ resp.status = 200
    /\ resp.data = [title |-> "Updated"]
    /\ resp.body.status = "completed"
    /\ resp.body.description = "Original Description"
    /\ resp.body.updated_at > resp.body.created_at
    /\ resp.body \in tasks
    /\ Cardinality(tasks) = 2

C20_StateChangesAreLogged ==
    [][ (users' # users \/ tokens' # tokens) => auth_events' # auth_events ]_vars

\* ------------------------------------------- claims about the chat endpoint
\* C21: a chat request that passed validation and names a conversation_id
\* under which the caller owns no conversation is answered 404, stores no
\* message and no conversation, and leaves the agent and the tasks alone.
C21_UnknownConversationNotFound ==
    [][ ( /\ resp'.op = "chat"
          /\ resp'.status # 422
          /\ resp'.conversation_id # NULL
          /\ get_conversation(resp'.conversation_id, resp'.user_id) = {} )
        => ( /\ resp'.status = 404
             /\ UNCHANGED <<chatVars, agentVars>> ) ]_vars

\* C29: every stored message belongs to a conversation that exists and is
\* owned by the user the message is stored for.
C29_MessagesFollowConversationOwner ==
    \A i \in DOMAIN messages :
       \E c \in conversations :
          /\ c.id = messages[i].conversation_id
          /\ c.user_id = messages[i].user_id

\* a user has chatted in a conversation, and a request of the other user
\* naming that conversation has just been refused
C29_Witness ==
    /\ resp.op = "chat"
    /\ resp.status = 404
    /\ \E c \in conversations :
          /\ c.id = resp.conversation_id
          /\ c.user_id # resp.user_id
          /\ \E i \in DOMAIN messages : messages[i].conversation_id = c.id

\* a turn in which the model invocation, the parsing of a call's arguments,
\* the call of a tool or the second model invocation raises
TurnFails(r) ==
    /\ r.agent = "client"
    /\ \/ r.raises[1]
       \/ /\ r.calls # << >>
          /\ \/ r.raises[2]
             \/ \E i \in DOMAIN r.calls :
                   \/ JsonLoadsRaises(r.calls[i].arguments)
                   \/ CallRaises(r.calls[i].name, Inject(r.calls[i].arguments, r.user_id))

\* C25: a chat turn in which the model invocation, the parsing of tool
\* arguments or a tool call raises is still answered 200 with the apologetic
\* reply and no tool_calls, and that reply is stored as the assistant message
\* after the user message.
C25_FailuresBecomeReplies ==
    [][ ( /\ resp'.op = "chat"
          /\ resp'.status \notin {422, 404}
          /\ TurnFails(resp') )
        => ( /\ resp'.status = 200
             /\ resp'.body.response = ErrorReply
             /\ resp'.body.tool_calls = << >>
             /\ Len(messages') = Len(messages) + 2
             /\ messages'[Len(messages')].role = "assistant"
             /\ messages'[Len(messages')].content = ErrorReply
             /\ messages'[Len(messages') - 1].role = "user" ) ]_vars

\* a turn whose second tool call carried arguments that are not JSON, after
\* the first call had stored a task, was answered 200 with the reply
C25_Witness ==
    /\ resp.op = "chat"
    /\ resp.status = 200
    /\ \E i \in DOMAIN resp.calls : JsonLoadsRaises(resp.calls[i].arguments)
    /\ Len(resp.executed) = 1
    /\ resp.body.response = ErrorReply
    /\ messages[Len(messages)].content = ErrorReply

\* C27: the tool_calls a turn returns list, in execution order, every tool
\* operation the turn executed, and a turn that changed the task table
\* returns a successful entry of a tool that writes.
C27_ToolCallsReportEveryOperation ==
    [][ IsTurn(resp') =>
          /\ Len(resp'.body.tool_calls) = Len(resp'.executed)
          /\ \A i \in DOMAIN resp'.executed :
                resp'.body.tool_calls[i].tool = resp'.executed[i].tool
          /\ mcp_tasks' # mcp_tasks =>
                \E i \in DOMAIN resp'.body.tool_calls :
                   /\ resp'.body.tool_calls[i].tool \in
                         {"add_task", "complete_task", "update_task", "delete_task"}
                   /\ resp'.body.tool_calls[i].result = "success" ]_vars

\* ------------------------------------ claims about consuming several tokens
UsedTokens(rows, u) ==
    { t \in DOMAIN rows : rows[t].user_id = u /\ rows[t].verified_at # NULL }

VerifySucceeded(r) == r.op = "verify_email" /\ r.status = 200

\* C28 as stated: verify-email succeeds only for a user who is not yet
\* verified, and no user ever has more than one token marked used.
C28_VerifiedUserConsumesNoToken ==
    [][ /\ VerifySucceeded(resp') => ~users[resp'.user_id].is_verified
        /\ \A u \in DOMAIN users' : Cardinality(UsedTokens(tokens', u)) <= 1 ]_vars

\* C28 as amended: verify-email looks at the token alone: it succeeds
\* exactly when the token is known, read as unused and unexpired, whether or
\* not the user is already verified; it leaves the token marked used and the
\* user verified, and a verified user stays verified.
C28_VerifyLooksAtTokenOnly ==
    [][ /\ resp'.op = "verify_email" =>
             ( resp'.status = 200 <=>
                  /\ resp'.token \in DOMAIN tokens
                  /\ tokens[resp'.token].verified_at = NULL
                  /\ tokens[resp'.token].expires_at >= now )
        /\ VerifySucceeded(resp') =>
             /\ tokens'[resp'.token].verified_at # NULL
             /\ users'[resp'.user_id].is_verified
        /\ \A u \in DOMAIN users : users[u].is_verified => users'[u].is_verified ]_vars

\* a second token of a user, who was verified already, has just been consumed
C28_Witness ==
    /\ VerifySucceeded(resp)
    /\ Cardinality(UsedTokens(tokens, resp.user_id)) = 2

\* ------------------------------------------- claims about the console app
ValidDescription(description) == ~Blank(description) /\ ~TooLong(description)

\* C22: TodoService.update_task with a valid description and a task id that
\* does not exist raises ValueError and leaves the task list unchanged.
C22_UpdateMissingRaisesValueError ==
    [][ ( /\ resp'.op = "TodoService.update_task"
          /\ ValidDescription(resp'.args[2])
          /\ ~task_exists(resp'.args[1]) )
        => ( /\ IsInstance(resp'.raised, "ValueError")
             /\ UNCHANGED cliVars ) ]_vars

\* C30: a TodoList.add_task call that raises ValueError leaves the tasks and
\* their count as they were, and the id the next successful add returns is
\* the id it would have returned without the failed call.
C30_FailedAddChangesNothing ==
    [][ ( /\ resp'.op = "TodoList.add_task"
          /\ IsInstance(resp'.raised, "ValueError") )
        => ( /\ todo_tasks' = todo_tasks
             /\ generate_next_id(TaskIds(todo_tasks'), todo_next_id')
                   = generate_next_id(TaskIds(todo_tasks), todo_next_id) ) ]_vars

\* ------------------------------------- claims about overlapping requests
AnsweredAs(p, op) == inflight[p].pc = "done" /\ inflight[p].op = op

\* C23: of the verify-email requests that present one token, however their
\* statements interleave, at most one succeeds.
C23_TokenVerifiedAtMostOnce ==
    \A token \in DOMAIN tokens :
       Cardinality({ p \in Processes :
                       /\ AnsweredAs(p, "verify_email")
                       /\ inflight[p].request.token = token
                       /\ inflight[p].response.status = 200 }) <= 1

\* the history a request loaded, without the row of its own user message
WithoutOwn(request) ==
    SelectSeq(request.loaded, LAMBDA m : m.id # request.own.id)

LoadedRows(request) == { request.loaded[i] : i \in DOMAIN request.loaded }

\* C24: the conversation_history a chat request hands to the agent is the
\* history it loaded minus its own just-saved user message and nothing else,
\* also when two requests on one conversation overlap (stated for loaded
\* messages whose created_at differ, which fixes the order of the history).
C24_HistoryExcludesOwnMessage ==
    \A p \in Processes :
       ( /\ AnsweredAs(p, "chat")
         /\ inflight[p].response.status = 200
         /\ DistinctTimes(LoadedRows(inflight[p].request)) )
       => inflight[p].request.conversation_history
             = OpenAIFormat(WithoutOwn(inflight[p].request))

\* a login of an existing account with a password that does not match
FailedLoginOf(p, user) ==
    /\ AnsweredAs(p, "login")
    /\ "user_id" \in DOMAIN inflight[p].request
    /\ inflight[p].request.user_id = user
    /\ ~verify_password(inflight[p].request.password, users[user].password_hash)

\* C26: two failed logins against one account that both read the same
\* failed_login_attempts are both refused and both write back that value
\* plus one, so the counter ends one above the value read, one below the
\* number of failed attempts made.
C26_FailedLoginsLoseAnUpdate ==
    \A user \in DOMAIN users :
       \A p, q \in Processes :
          ( /\ p # q
            /\ FailedLoginOf(p, user)
            /\ FailedLoginOf(q, user)
            /\ inflight[p].request.failed_login_attempts
                  = inflight[q].request.failed_login_attempts )
          => ( /\ inflight[p].response.status = 401
               /\ inflight[q].response.status = 401
               /\ users[user].failed_login_attempts
                     = inflight[p].request.failed_login_attempts + 1 )
====
